---- MODULE Spec2Model ----
(***************************************************************************)
(* A model of the test-sequence runner of src/main.py: the step objects,   *)
(* the sequence list, the function registry, the parameter widgets and the *)
(* execution engine MainWindow.run_sequence.                               *)
(*                                                                         *)
(* Text is a sequence of one-character strings, so that str.strip(),       *)
(* str.lower(), int() and float() are computed and not assumed.            *)
(***************************************************************************)
EXTENDS Integers, Sequences, FiniteSets, TLC

VARIABLES
    disk,                  \* the test_*.py files of the working directory
    loaded_sources,        \* the files as the last load_test_functions read them
    test_functions,        \* MainWindow.test_functions: module -> name -> callable
    function_tree,         \* the (module, function) rows of the catalogue tree
    diagnostics,           \* module -> the failure lines the last load printed for it
    steps,                 \* every StepObject created so far, by identity
    nextId,                \* the number of StepObjects created so far
    sequence_list,         \* the items of the sequence list, in order
    currentItem,           \* the current item of the sequence list, 0 when none
    current_param_widgets, \* MainWindow.current_param_widgets: name -> line edit
    step_params_cache,     \* MainWindow.step_params_cache: item id -> dict
    output_text,           \* the text shown in the output pane
    stack                  \* the active calls of run_sequence, innermost last

vars == <<disk, loaded_sources, test_functions, function_tree, diagnostics, steps, nextId,
          sequence_list, currentItem, current_param_widgets,
          step_params_cache, output_text, stack>>

(***************************************************************************)
(* Bounds of the model.                                                    *)
(***************************************************************************)
\* the longest sequence the engine specifications start from
MaxLen == 2
\* the number of StepObjects the interactive specification creates
MaxSteps == 2
\* the number of nested run_sequence calls (a Run event inside processEvents)
MaxDepth == 2

(***************************************************************************)
(* Text.                                                                   *)
(***************************************************************************)
UpperChars == <<"A","B","C","D","E","F","G","H","I","J","K","L","M",
                "N","O","P","Q","R","S","T","U","V","W","X","Y","Z">>
LowerChars == <<"a","b","c","d","e","f","g","h","i","j","k","l","m",
                "n","o","p","q","r","s","t","u","v","w","x","y","z">>
DigitChars == <<"0","1","2","3","4","5","6","7","8","9">>

Range(f) == {f[x] : x \in DOMAIN f}

IndexOf(c, s) == CHOOSE i \in 1..Len(s) : s[i] = c

\* the whitespace str.strip() removes, as far as a line edit can hold it
IsSpace(c) == c \in {" ", "\t"}

\* str.strip(): the text between its first and last non-blank character
Strip(s) ==
    LET keep == {i \in 1..Len(s) : ~IsSpace(s[i])}
    IN  IF keep = {} THEN <<>>
        ELSE SubSeq(s, CHOOSE i \in keep : \A j \in keep : i <= j,
                       CHOOSE i \in keep : \A j \in keep : i >= j)

LowerChar(c) == IF c \in Range(UpperChars) THEN LowerChars[IndexOf(c, UpperChars)] ELSE c

\* str.lower()
Lower(s) == [i \in 1..Len(s) |-> LowerChar(s[i])]

IsDigit(c) == c \in Range(DigitChars)

DigitValue(c) == IndexOf(c, DigitChars) - 1

\* a run of digits in which single underscores may separate digits
IsDigitGroup(s) ==
    /\ Len(s) > 0
    /\ \A i \in 1..Len(s) : IsDigit(s[i]) \/ s[i] = "_"
    /\ IsDigit(s[1]) /\ IsDigit(s[Len(s)])
    /\ \A i \in 1..(Len(s) - 1) : ~(s[i] = "_" /\ s[i + 1] = "_")

RECURSIVE DigitsValue(_)
DigitsValue(s) ==
    IF s = <<>> THEN 0
    ELSE LET front == SubSeq(s, 1, Len(s) - 1)
             last  == s[Len(s)]
         IN  IF last = "_" THEN DigitsValue(front)
             ELSE 10 * DigitsValue(front) + DigitValue(last)

HasSign(s) == Len(s) > 0 /\ s[1] \in {"+", "-"}
Unsigned(s) == IF HasSign(s) THEN Tail(s) ELSE s
SignOf(s) == IF Len(s) > 0 /\ s[1] = "-" THEN -1 ELSE 1

(***************************************************************************)
(* Python values: None, bool, int, float and str, in one record shape.     *)
(* A float is n * 10^e, or one of the specials named by s.                 *)
(***************************************************************************)
PyNone == [t |-> "none", n |-> 0, e |-> 0, s |-> <<>>]
PyBool(b) == [t |-> "bool", n |-> IF b THEN 1 ELSE 0, e |-> 0, s |-> <<>>]
PyInt(k) == [t |-> "int", n |-> k, e |-> 0, s |-> <<>>]
PyFloat(m, x) == [t |-> "float", n |-> m, e |-> x, s |-> <<>>]
PyFloatSpecial(name) == [t |-> "float", n |-> 1, e |-> 0, s |-> name]
PyStr(s) == [t |-> "str", n |-> 0, e |-> 0, s |-> s]

\* bool(v), the truth value Python gives v
Truthy(v) ==
    CASE v.t = "none" -> FALSE
      [] v.t = "str"  -> v.s # <<>>
      [] OTHER        -> v.n # 0

\* the first position of c in s, 0 when c does not occur
FirstIndex(c, s) ==
    LET at == {i \in 1..Len(s) : s[i] = c}
    IN  IF at = {} THEN 0 ELSE CHOOSE i \in at : \A j \in at : i <= j

\* int(text): [ok, value]; the literal is an optional sign and a digit group
PyIntParse(text) ==
    LET s == Strip(text)
        body == Unsigned(s)
    IN  IF IsDigitGroup(body)
        THEN [ok |-> TRUE, value |-> PyInt(SignOf(s) * DigitsValue(body)),
              cause |-> "ok"]
        ELSE [ok |-> FALSE, value |-> PyNone,
              cause |-> "invalid literal for int() with base 10"]

FloatSpecials == { <<"i","n","f">>, <<"n","a","n">>,
                   <<"i","n","f","i","n","i","t","y">> }

\* float(text): [ok, value]; inf, nan, or digits with an optional point and
\* an optional exponent
PyFloatParse(text) ==
    LET s == Strip(text)
        body == Lower(Unsigned(s))
        ePos == FirstIndex("e", body)
        mant == IF ePos = 0 THEN body ELSE SubSeq(body, 1, ePos - 1)
        expo == IF ePos = 0 THEN <<>> ELSE SubSeq(body, ePos + 1, Len(body))
        dot  == FirstIndex(".", mant)
        whole == IF dot = 0 THEN mant ELSE SubSeq(mant, 1, dot - 1)
        frac == IF dot = 0 THEN <<>> ELSE SubSeq(mant, dot + 1, Len(mant))
        fracDigits == Cardinality({i \in 1..Len(frac) : IsDigit(frac[i])})
        mantOk == /\ whole = <<>> \/ IsDigitGroup(whole)
                  /\ frac = <<>> \/ IsDigitGroup(frac)
                  /\ whole # <<>> \/ frac # <<>>
        expoOk == ePos = 0 \/ IsDigitGroup(Unsigned(expo))
        failed == [ok |-> FALSE, value |-> PyNone,
                   cause |-> "could not convert string to float"]
    IN  IF body \in FloatSpecials
        THEN [ok |-> TRUE, value |-> PyFloatSpecial(body), cause |-> "ok"]
        ELSE IF mantOk /\ expoOk
        THEN [ok |-> TRUE,
              value |-> PyFloat(SignOf(s) * DigitsValue(whole \o frac),
                                SignOf(expo) * DigitsValue(Unsigned(expo)) - fracDigits),
              cause |-> "ok"]
        ELSE failed

\* the texts that convert to True for a bool parameter
BoolTrueTexts == { <<"t","r","u","e">>, <<"1">>, <<"y","e","s">>, <<"o","n">> }

\* a variant that compares a bool text without lower()
ConvertArgCaseSensitive(annotation, value_str) ==
    CASE annotation = "bool" ->
            [ok |-> TRUE, value |-> PyBool(value_str \in BoolTrueTexts), cause |-> "ok"]
      [] annotation = "int" -> PyIntParse(value_str)
      [] annotation = "float" -> PyFloatParse(value_str)
      [] OTHER -> [ok |-> TRUE, value |-> PyStr(value_str), cause |-> "ok"]

\* the type conversion of one argument: value_str is the stripped text and
\* annotation the declared type as inspect reports it, a type object
\* ("empty" when the parameter has none)
ConvertArg(annotation, value_str) ==
    IF annotation # "empty"
    THEN CASE annotation = "bool" ->
                [ok |-> TRUE, value |-> PyBool(Lower(value_str) \in BoolTrueTexts),
                 cause |-> "ok"]
           [] annotation = "int" -> PyIntParse(value_str)
           [] annotation = "float" -> PyFloatParse(value_str)
           [] OTHER -> [ok |-> TRUE, value |-> PyStr(value_str), cause |-> "ok"]
    ELSE [ok |-> TRUE, value |-> PyStr(value_str), cause |-> "ok"]

(***************************************************************************)
(* Maps (Python dicts) as functions on a finite set of keys.               *)
(***************************************************************************)
EmptyMap == <<>>
MapGet(m, k, default) == IF k \in DOMAIN m THEN m[k] ELSE default
MapPut(m, k, v) == [x \in DOMAIN m \cup {k} |-> IF x = k THEN v ELSE m[x]]

(***************************************************************************)
(* Callables: what inspect.signature reports of a function, and what the   *)
(* function does when it is called.                                        *)
(***************************************************************************)
Param(name, annotation) ==
    [name |-> name, annotation |-> annotation, hasDefault |-> FALSE, default |-> PyNone]
ParamWithDefault(name, annotation, value) ==
    [name |-> name, annotation |-> annotation, hasDefault |-> TRUE, default |-> value]

\* dict.get's None for a (module, function) pair the registry does not hold
NoFunc == [params |-> <<>>, sig |-> "none", body |-> "none"]

Def(params, body) == [params |-> params, sig |-> "ok", body |-> body]

\* def add_positive(a: int, b: int) -> bool: return a + b > 0
AddPositive == Def(<<Param("a", "int"), Param("b", "int")>>, "add_positive")
\* def within_limit(value: int, limit: int = 10): return value <= limit
WithinLimit == Def(<<Param("value", "int"), ParamWithDefault("limit", "int", PyInt(10))>>,
                   "within_limit")
\* def set_flag(enabled: bool): return enabled
SetFlag == Def(<<Param("enabled", "bool")>>, "return_first")
\* def count(n: int): return n
Count == Def(<<Param("n", "int")>>, "return_first")
\* def gain(factor: float): return factor
Gain == Def(<<Param("factor", "float")>>, "return_first")
\* def send(text: str): return text
Send == Def(<<Param("text", "str")>>, "return_first")
\* def echo(text): return text
Echo == Def(<<Param("text", "empty")>>, "return_first")
\* def noop(): pass
Noop == Def(<<>>, "return_none")
\* def broken(): raise RuntimeError("boom")
Broken == Def(<<>>, "raise")
\* a public callable whose signature inspect.signature cannot find
Opaque == [params |-> <<>>, sig |-> "ValueError", body |-> "return_none"]

ParamNames(func) == {func.params[k].name : k \in 1..Len(func.params)}

\* func(**args): [ran, raised, value, msg].  Binding the keyword arguments
\* fails with TypeError when a parameter without default has no argument.
CallFunction(func, args) ==
    LET missing == {k \in 1..Len(func.params) :
                      /\ ~func.params[k].hasDefault
                      /\ func.params[k].name \notin DOMAIN args}
        bound == [k \in 1..Len(func.params) |->
                    IF func.params[k].name \in DOMAIN args
                    THEN args[func.params[k].name]
                    ELSE func.params[k].default]
        returns(v) == [ran |-> TRUE, raised |-> FALSE, value |-> v, msg |-> "returned"]
    IN  IF missing # {}
        THEN [ran |-> FALSE, raised |-> TRUE, value |-> PyNone,
              msg |-> "missing required positional argument"]
        ELSE CASE func.body = "add_positive" -> returns(PyBool(bound[1].n + bound[2].n > 0))
               [] func.body = "within_limit" -> returns(PyBool(bound[1].n <= bound[2].n))
               [] func.body = "return_first" -> returns(bound[1])
               [] func.body = "raise" ->
                    [ran |-> TRUE, raised |-> TRUE, value |-> PyNone, msg |-> "boom"]
               [] OTHER -> returns(PyNone)

(***************************************************************************)
(* The working directory: each test_*.py file either fails to load or      *)
(* defines public callables.                                               *)
(***************************************************************************)
Loads(defs) == [failed |-> FALSE, defs |-> defs]
FailsToLoad == [failed |-> TRUE, defs |-> EmptyMap]

MathDefs == ("add_positive" :> AddPositive) @@ ("within_limit" :> WithinLimit)
DeviceDefs == ("set_flag" :> SetFlag) @@ ("echo" :> Echo) @@ ("noop" :> Noop)
              @@ ("broken" :> Broken) @@ ("opaque" :> Opaque)
ConvertDefs == ("set_flag" :> SetFlag) @@ ("count" :> Count) @@ ("gain" :> Gain)
               @@ ("send" :> Send) @@ ("echo" :> Echo)

\* both modules load
DiskBoth == ("test_math" :> Loads(MathDefs)) @@ ("test_device" :> Loads(DeviceDefs))
\* test_device fails to load and test_math has lost within_limit
DiskMathOnly == ("test_math" :> Loads("add_positive" :> AddPositive))
                @@ ("test_device" :> FailsToLoad)
\* one function for each declared parameter type
DiskConvert == ("test_convert" :> Loads(ConvertDefs))
\* add_positive only
DiskSmall == ("test_math" :> Loads("add_positive" :> AddPositive))
\* no file loads
DiskNone == ("test_math" :> FailsToLoad)

\* a variant in which one failing module ends the discovery of all
LoadRegistryAllOrNothing(d) ==
    IF \E x \in DOMAIN d : d[x].failed
    THEN EmptyMap
    ELSE [m \in {x \in DOMAIN d : DOMAIN d[x].defs # {}} |-> d[m].defs]

\* load_test_functions' registry for the files d
LoadRegistry(d) ==
    [m \in {x \in DOMAIN d : ~d[x].failed /\ DOMAIN d[x].defs # {}} |-> d[m].defs]

\* the rows load_test_functions adds to the function tree
LoadTree(d) ==
    {mf \in (DOMAIN d) \X UNION {DOMAIN d[x].defs : x \in DOMAIN d} :
        ~d[mf[1]].failed /\ mf[2] \in DOMAIN d[mf[1]].defs}

\* the lines load_test_functions prints: one for each module whose load
\* raised, from the except branch of its iteration
LoadDiagnostics(d) == [m \in {x \in DOMAIN d : d[x].failed} |-> 1]

\* self.test_functions.get(module_name, {}).get(func_name)
Lookup(registry, module, function) ==
    IF module \in DOMAIN registry /\ function \in DOMAIN registry[module]
    THEN registry[module][function]
    ELSE NoFunc

(***************************************************************************)
(* Steps and the lines of the output pane.                                 *)
(***************************************************************************)
\* a variant that names a step by what it runs, as the keys of
\* step_params_cache once did
StepObjectNamedByTarget(id, type, module, function, control) ==
    [id |-> <<module, function, control>>, type |-> type, module |-> module,
     function |-> function, control |-> control, params |-> EmptyMap]

\* StepObject(type_, module, function, control): params starts as its own {}
\* and id is the uuid4 of the call, modelled as the number of the creation
StepObject(id, type, module, function, control) ==
    [id |-> id, type |-> type, module |-> module, function |-> function,
     control |-> control, params |-> EmptyMap]

\* one line of output: its kind, the position of the step it belongs to
\* (0 for the lines of the run itself) and its text
Entry(kind, i, msg) == [kind |-> kind, i |-> i, msg |-> msg]

\* the text of a list item: "module.function" or the control token
ItemText(st) == IF st.type = "function" THEN <<st.module, st.function>> ELSE <<st.control>>

\* update_output: the numbered items of the sequence
Summary(seq, allSteps) ==
    <<Entry("Summary", 0, <<>>)>> \o [i \in 1..Len(seq) |-> Entry("Item", i, ItemText(allSteps[seq[i]]))]

(***************************************************************************)
(* run_sequence.  A frame is one call of it, stopped at a processEvents    *)
(* call (pc in PumpPoints) or finished ("done", "aborted").  calls,        *)
(* visited, seq0, steps0 and reg0 record what the call did and what it     *)
(* started from; the code does not read them.                              *)
(***************************************************************************)
PumpPoints == {"start", "control", "header", "conv", "end"}

NewFrame ==
    [pc |-> "start", i |-> 0, count |-> 0,
     output |-> <<Entry("Begin", 0, <<>>)>>,
     step |-> 0, func |-> NoFunc, k |-> 0, args |-> EmptyMap,
     calls |-> <<>>, visited |-> <<>>,
     seq0 |-> sequence_list, steps0 |-> steps, reg0 |-> test_functions]

\* the outer except: the run ends with the error line
Abort(fr, i, msg) ==
    [fr EXCEPT !.pc = "aborted", !.i = i,
               !.output = Append(@, Entry("Aborted", i, <<msg>>))]

\* a variant that resolves a step in the files as they are on disk when the
\* step is executed, not in the registry
IterateResolvingOnDisk(fr, i) ==
    IF i > fr.count
    THEN [fr EXCEPT !.pc = "done", !.i = i,
                    !.output = Append(@, Entry("Complete", 0, <<>>))]
    ELSE IF i > Len(sequence_list)
    THEN Abort(fr, i, "'NoneType' object has no attribute 'data'")
    ELSE LET id == sequence_list[i]
             st == steps[id]
         IN  IF st.type = "function"
             THEN [fr EXCEPT !.pc = "header", !.i = i, !.step = id,
                             !.func = Lookup(LoadRegistry(disk), st.module, st.function),
                             !.k = 0, !.args = EmptyMap,
                             !.visited = Append(@, id),
                             !.output = Append(@, Entry("Header", i, ItemText(st)))]
             ELSE [fr EXCEPT !.pc = "control", !.i = i, !.step = id,
                             !.func = NoFunc, !.k = 0, !.args = EmptyMap,
                             !.visited = Append(@, id),
                             !.output = Append(@, Entry("ControlMarker", i, <<st.control>>))]

\* the head of iteration i (1-based) of the for loop, up to processEvents
Iterate(fr, i) ==
    IF i > fr.count
    THEN [fr EXCEPT !.pc = "done", !.i = i,
                    !.output = Append(@, Entry("Complete", 0, <<>>))]
    ELSE IF i > Len(sequence_list)
    THEN Abort(fr, i, "'NoneType' object has no attribute 'data'")
    ELSE LET id == sequence_list[i]
             st == steps[id]
         IN  IF st.type = "function"
             THEN [fr EXCEPT !.pc = "header", !.i = i, !.step = id,
                             !.func = Lookup(test_functions, st.module, st.function),
                             !.k = 0, !.args = EmptyMap,
                             !.visited = Append(@, id),
                             !.output = Append(@, Entry("Header", i, ItemText(st)))]
             ELSE [fr EXCEPT !.pc = "control", !.i = i, !.step = id,
                             !.func = NoFunc, !.k = 0, !.args = EmptyMap,
                             !.visited = Append(@, id),
                             !.output = Append(@, Entry("ControlMarker", i, <<st.control>>))]

\* a variant that takes None for a failure
VerdictTruthOnly(result) ==
    IF Truthy(result) THEN "Success" ELSE "Failure"

\* '成功' if result is None or result else '失败'
Verdict(result) ==
    IF result.t = "none" \/ Truthy(result) THEN "Success" ELSE "Failure"

\* the call of the function and the line it adds, up to processEvents
Invoke(fr) ==
    LET r == CallFunction(fr.func, fr.args)
        line == IF r.raised THEN Entry("Error", fr.i, <<r.msg>>)
                ELSE Entry(Verdict(r.value), fr.i, <<>>)
    IN  [fr EXCEPT !.pc = "end",
                   !.calls = Append(@, [i |-> fr.i, step |-> fr.step,
                                        args |-> fr.args, result |-> r]),
                   !.output = Append(@, line)]

\* the except branch of the type conversion: the error line, processEvents,
\* and continue, which resumes the loop over the parameters
ConversionFailed(fr, k, cause) ==
    [fr EXCEPT !.pc = "conv", !.k = k,
               !.output = Append(@, Entry("ArgumentError", fr.i,
                                          <<fr.func.params[k].name, cause>>))]

\* a variant without strip()
ValueStrRaw(st, param_name) == MapGet(st.params, param_name, <<>>)

\* value_str = step_data.params.get(param_name, '').strip()
ValueStr(st, param_name) == Strip(MapGet(st.params, param_name, <<>>))

\* the loop over the parameters from parameter k on, then the call
RECURSIVE ConvertFrom(_, _)
ConvertFrom(fr, k) ==
    IF k > Len(fr.func.params)
    THEN Invoke(fr)
    ELSE LET p == fr.func.params[k]
             conv == ConvertArg(p.annotation, ValueStr(steps[fr.step], p.name))
         IN  IF conv.ok
             THEN ConvertFrom([fr EXCEPT !.args = MapPut(@, p.name, conv.value)], k + 1)
             ELSE ConversionFailed(fr, k, conv.cause)

\* a variant without the check for a function that was not found
AfterHeaderUnchecked(fr) ==
    IF fr.func.sig # "ok"
    THEN Abort(fr, fr.i, "no signature found")
    ELSE ConvertFrom(fr, 1)

\* after the header's processEvents: not found, or the signature and the
\* parameters
AfterHeader(fr) ==
    IF fr.func = NoFunc
    THEN Iterate([fr EXCEPT !.output = Append(@, Entry("NotFound", fr.i, <<>>))], fr.i + 1)
    ELSE IF fr.func.sig # "ok"
    THEN Abort(fr, fr.i, "no signature found")
    ELSE ConvertFrom(fr, 1)

Top == stack[Len(stack)]
Running == stack # <<>> /\ Top.pc \in PumpPoints
Returning == stack # <<>> /\ Top.pc \notin PumpPoints
\* the program is in the event loop: idle, or inside processEvents
AtEventLoop == IF stack = <<>> THEN TRUE ELSE Top.pc \in PumpPoints

UIUnchanged == UNCHANGED <<disk, loaded_sources, test_functions, function_tree, diagnostics, steps,
                           nextId, sequence_list, currentItem,
                           current_param_widgets, step_params_cache>>

\* a variant that stores the stripped texts back into the step
ContinueNormalising(fr) ==
    /\ stack' = [stack EXCEPT ![Len(stack)] = fr]
    /\ output_text' = fr.output
    /\ steps' = IF fr.step = 0 THEN steps
                ELSE [steps EXCEPT ![fr.step].params = [p \in DOMAIN @ |-> Strip(@[p])]]
    /\ UNCHANGED <<disk, loaded_sources, test_functions, function_tree, diagnostics, nextId,
                   sequence_list, currentItem, current_param_widgets, step_params_cache>>

\* every segment of run_sequence ends with self.output_text.setText(output)
Continue(fr) ==
    /\ stack' = [stack EXCEPT ![Len(stack)] = fr]
    /\ output_text' = fr.output
    /\ UIUnchanged

\* lines 418-422: the first line, then processEvents
run_sequence ==
    /\ AtEventLoop
    /\ Len(stack) < MaxDepth
    /\ stack' = Append(stack, NewFrame)
    /\ output_text' = NewFrame.output
    /\ UIUnchanged

\* line 426: range(self.sequence_list.count()) is evaluated once
RunEnterLoop ==
    /\ Running /\ Top.pc = "start"
    /\ Continue(Iterate([Top EXCEPT !.count = Len(sequence_list)], 1))

\* line 446: continue after a control statement
RunAfterControl ==
    /\ Running /\ Top.pc = "control"
    /\ Continue(Iterate(Top, Top.i + 1))

\* lines 465-511
RunAfterHeader ==
    /\ Running /\ Top.pc = "header"
    /\ Continue(AfterHeader(Top))

\* line 501: continue after a failed conversion
RunAfterConversionError ==
    /\ Running /\ Top.pc = "conv"
    /\ Continue(ConvertFrom(Top, Top.k + 1))

\* lines 513-514, then the next iteration
RunAfterInvoke ==
    /\ Running /\ Top.pc = "end"
    /\ Continue(Iterate(Top, Top.i + 1))

\* run_sequence returns to its caller
RunReturn ==
    /\ Returning
    /\ stack' = SubSeq(stack, 1, Len(stack) - 1)
    /\ UNCHANGED output_text
    /\ UIUnchanged

(***************************************************************************)
(* The parameter panel.                                                    *)
(***************************************************************************)
\* add_input_row: a line edit; item is the list item its textChanged signal
\* is bound to (0 when it is bound to none)
InputRow(text, item, read_only) == [text |-> text, item |-> item, read_only |-> read_only]

\* a variant whose rows start empty
ShowItemBlank(current, allSteps, registry) ==
    IF current = 0 THEN EmptyMap
    ELSE LET st == allSteps[current]
             func == Lookup(registry, st.module, st.function)
         IN  IF st.type # "function" THEN EmptyMap
             ELSE IF func = NoFunc
             THEN "error" :> InputRow(<<"function not found">>, 0, TRUE)
             ELSE IF func.sig # "ok"
             THEN "error" :> InputRow(<<"parse failed">>, 0, TRUE)
             ELSE [p \in ParamNames(func) |-> InputRow(<<>>, current, FALSE)]

\* on_current_item_changed after clear_param_inputs: the rows built for the
\* item current
ShowItem(current, allSteps, registry) ==
    IF current = 0 THEN EmptyMap
    ELSE LET st == allSteps[current]
             func == Lookup(registry, st.module, st.function)
         IN  IF st.type # "function" THEN EmptyMap
             ELSE IF func = NoFunc
             THEN "error" :> InputRow(<<"function not found">>, 0, TRUE)
             ELSE IF func.sig # "ok"
             THEN "error" :> InputRow(<<"parse failed">>, 0, TRUE)
             ELSE [p \in ParamNames(func) |->
                     InputRow(MapGet(st.params, p, <<>>), current, FALSE)]

(***************************************************************************)
(* The engine on given inputs: the states from which runs are checked.     *)
(* The steps were dropped in order, their parameters typed in, and the     *)
(* last one is selected.                                                   *)
(***************************************************************************)
\* the parameter texts of the sequences of up to MaxLen steps
RunTexts == { <<"3">>, <<"x">> }

\* the parameter texts of the one-step sequences
ConvertTexts == {
    <<>>, <<"t","r","u","e">>, <<"T","r","u","e">>,
    <<" ","T","R","U","E"," ">>, <<"1">>, <<" ","1">>, <<"y","e","s">>,
    <<"Y","E","S">>, <<"o","n">>, <<"O","n"," ">>, <<"0">>,
    <<"f","a","l","s","e">>, <<"n","o">>, <<"o","f","f">>, <<"y">>, <<"2">>,
    <<"1","1">>, <<"x">>, <<" ","x"," ">>, <<"-","3">>, <<"+","4">>,
    <<"1","_","0">>, <<"1",".","5">>, <<".","5">>, <<"5",".">>,
    <<"0",".","0">>, <<"1","e","2">>, <<"i","n","f">>, <<"\t","1">>,
    <<"t","r"," ","u","e">>, <<"-"," ","1">> }

\* every dict of texts over some of the parameters of func
ParamMaps(func, texts) == UNION {[K -> texts] : K \in SUBSET ParamNames(func)}

FunctionSteps(d, texts) ==
    UNION {{[StepObject(0, "function", mf[1], mf[2], "None") EXCEPT !.params = pm] :
              pm \in ParamMaps(d[mf[1]].defs[mf[2]], texts)} : mf \in LoadTree(d)}

ControlTokens == {"if", "for", "end"}

ControlSteps == {StepObject(0, "control", "None", "None", c) : c \in ControlTokens}

InitWith(d, chosen) ==
    LET n == Len(chosen)
        made == [i \in 1..n |-> [chosen[i] EXCEPT !.id = i]]
    IN  /\ disk = d
        /\ loaded_sources = d
        /\ test_functions = LoadRegistry(d)
        /\ function_tree = LoadTree(d)
        /\ diagnostics = LoadDiagnostics(d)
        /\ steps = made
        /\ nextId = n
        /\ sequence_list = [i \in 1..n |-> i]
        /\ currentItem = n
        /\ current_param_widgets = ShowItem(n, made, LoadRegistry(d))
        /\ step_params_cache = [i \in {j \in 1..(n - 1) : DOMAIN made[j].params # {}} |-> EmptyMap]
        /\ output_text = IF n = 0 THEN <<>> ELSE Summary([i \in 1..n |-> i], made)
        /\ stack = <<>>

\* sequences of up to MaxLen steps over test_math and test_device
InitSequences ==
    \E d \in {DiskBoth, DiskMathOnly} : \E n \in 0..MaxLen :
        \E chosen \in [1..n -> FunctionSteps(DiskBoth, RunTexts) \cup ControlSteps] :
            InitWith(d, chosen)

\* one step of test_convert with any of the texts
InitConvert ==
    \E st \in FunctionSteps(DiskConvert, ConvertTexts) : InitWith(DiskConvert, <<st>>)

InitRun == InitSequences \/ InitConvert

\* runs during which no event is delivered
NextRun ==
    \/ stack = <<>> /\ run_sequence
    \/ RunEnterLoop
    \/ RunAfterControl
    \/ RunAfterHeader
    \/ RunAfterConversionError
    \/ RunAfterInvoke
    \/ RunReturn

SpecRun == InitRun /\ [][NextRun]_vars

(***************************************************************************)
(* The events of the window.  Each is delivered when the program is in the *)
(* event loop: idle, or inside a processEvents call of run_sequence.       *)
(***************************************************************************)
\* the texts a user types into a parameter's line edit
TypedTexts == { <<>>, <<"1">> }

\* the texts of a drop that carries text
DroppedTexts == ControlTokens \cup {"while"}

\* the directories the interactive specification moves between
InteractiveDisks == {DiskSmall, DiskNone}

\* save_current_params(item): the params of the item's step after the save
SavedSteps(allSteps, widgets, item) ==
    IF item = 0 \/ DOMAIN widgets = {}
    THEN allSteps
    ELSE [allSteps EXCEPT ![item].params =
            [p \in DOMAIN @ \cup DOMAIN widgets |->
                IF p \in DOMAIN widgets THEN widgets[p].text ELSE @[p]]]

\* save_current_params(item): step_params_cache after the save
SavedCache(cache, widgets, item) ==
    IF item = 0 \/ DOMAIN widgets = {} \/ item \in DOMAIN cache
    THEN cache
    ELSE MapPut(cache, item, EmptyMap)

\* a variant whose save takes the list's current item, which is the new one
\* when the signal arrives, as save_current_params() does without argument
OnCurrentItemChangedSavingCurrent(current, previous) ==
    LET saved == SavedSteps(steps, current_param_widgets, current)
    IN  /\ steps' = saved
        /\ step_params_cache' = SavedCache(step_params_cache, current_param_widgets, current)
        /\ current_param_widgets' = ShowItem(current, saved, test_functions)
        /\ currentItem' = current

\* on_current_item_changed(current, previous): save the previous item's
\* rows, clear the panel, build the rows of the current item
on_current_item_changed(current, previous) ==
    LET saved == SavedSteps(steps, current_param_widgets, previous)
    IN  /\ steps' = saved
        /\ step_params_cache' = SavedCache(step_params_cache, current_param_widgets, previous)
        /\ current_param_widgets' = ShowItem(current, saved, test_functions)
        /\ currentItem' = current

\* a variant that keeps the values by "module.function", for every step of
\* the same function
OnParamChangedByFunction(allSteps, item, param_name, value) ==
    IF item = 0 THEN allSteps
    ELSE [t \in DOMAIN allSteps |->
            IF allSteps[t].module = allSteps[item].module
               /\ allSteps[t].function = allSteps[item].function
            THEN [allSteps[t] EXCEPT !.params = MapPut(@, param_name, value)]
            ELSE allSteps[t]]

\* on_param_changed(item, param_name, value)
on_param_changed(allSteps, item, param_name, value) ==
    IF item = 0 THEN allSteps
    ELSE [allSteps EXCEPT ![item].params = MapPut(@, param_name, value)]

\* the files of the working directory change to one of sources
SourcesChangeTo(sources) ==
    /\ AtEventLoop
    /\ \E d \in sources \ {disk} : disk' = d
    /\ UNCHANGED <<loaded_sources, test_functions, function_tree, diagnostics,
                   steps, nextId, sequence_list, currentItem,
                   current_param_widgets, step_params_cache, output_text, stack>>

\* the files of the working directory change
SourcesChange == SourcesChangeTo(InteractiveDisks)

\* a variant that adds to the registry it finds and does not start from {}
LoadMerging ==
    /\ AtEventLoop
    /\ test_functions' =
          [m \in DOMAIN test_functions \cup DOMAIN LoadRegistry(disk) |->
              IF m \notin DOMAIN LoadRegistry(disk) THEN test_functions[m]
              ELSE IF m \notin DOMAIN test_functions THEN LoadRegistry(disk)[m]
              ELSE [f \in DOMAIN test_functions[m] \cup DOMAIN LoadRegistry(disk)[m] |->
                      IF f \in DOMAIN LoadRegistry(disk)[m]
                      THEN LoadRegistry(disk)[m][f] ELSE test_functions[m][f]]]
    /\ function_tree' = LoadTree(disk)
    /\ diagnostics' = LoadDiagnostics(disk)
    /\ loaded_sources' = disk
    /\ UNCHANGED <<disk, steps, nextId, sequence_list, currentItem,
                   current_param_widgets, step_params_cache, output_text, stack>>

\* load_test_functions: the tree and the registry are built anew
load_test_functions ==
    /\ AtEventLoop
    /\ test_functions' = LoadRegistry(disk)
    /\ function_tree' = LoadTree(disk)
    /\ diagnostics' = LoadDiagnostics(disk)
    /\ loaded_sources' = disk
    /\ UNCHANGED <<disk, steps, nextId, sequence_list, currentItem,
                   current_param_widgets, step_params_cache, output_text, stack>>

\* dropEvent with the row mf of the function tree: a function step is
\* appended
DropFunctionOf(mf) ==
    /\ AtEventLoop
    /\ nextId < MaxSteps
    /\ LET id == nextId + 1
           made == Append(steps, StepObject(id, "function", mf[1], mf[2], "None"))
       IN  /\ steps' = made
           /\ nextId' = id
           /\ sequence_list' = Append(sequence_list, id)
           /\ output_text' = Summary(Append(sequence_list, id), made)
    /\ UNCHANGED <<disk, loaded_sources, test_functions, function_tree, diagnostics, currentItem,
                   current_param_widgets, step_params_cache, stack>>

\* the user drags a row of the function tree into the list
DropFunction == \E mf \in function_tree : DropFunctionOf(mf)

\* a variant that takes any text for a control token
DropTextAnyToken(text) ==
    /\ AtEventLoop
    /\ nextId < MaxSteps
    /\ LET id == nextId + 1
           made == Append(steps, StepObject(id, "control", "None", "None", text))
       IN  /\ steps' = made
           /\ nextId' = id
           /\ sequence_list' = Append(sequence_list, id)
           /\ output_text' = Summary(Append(sequence_list, id), made)
    /\ UNCHANGED <<disk, loaded_sources, test_functions, function_tree, diagnostics,
                   currentItem, current_param_widgets, step_params_cache, stack>>

\* dropEvent with text: a control step is appended for if, for and end
DropTextOf(text) ==
    /\ AtEventLoop
    /\ IF text \in {"if", "for", "end"}
       THEN /\ nextId < MaxSteps
            /\ LET id == nextId + 1
                   made == Append(steps, StepObject(id, "control", "None", "None", text))
               IN  /\ steps' = made
                   /\ nextId' = id
                   /\ sequence_list' = Append(sequence_list, id)
                   /\ output_text' = Summary(Append(sequence_list, id), made)
       ELSE /\ output_text' = Summary(sequence_list, steps)
            /\ UNCHANGED <<steps, nextId, sequence_list>>
    /\ UNCHANGED <<disk, loaded_sources, test_functions, function_tree, diagnostics,
                   currentItem, current_param_widgets, step_params_cache, stack>>

\* the user drags a control button, or text of another program, into the list
DropText == \E text \in DroppedTexts : DropTextOf(text)

\* the list with the item at position from moved to position to
Moved(seq, from, to) ==
    LET without == [k \in 1..(Len(seq) - 1) |-> IF k < from THEN seq[k] ELSE seq[k + 1]]
    IN  [k \in 1..Len(seq) |->
            IF k < to THEN without[k] ELSE IF k = to THEN seq[from] ELSE without[k - 1]]

\* dropEvent of the list's own drag: the item is moved inside the list
DropMove ==
    /\ AtEventLoop
    /\ \E from, to \in 1..Len(sequence_list) :
         /\ from # to
         /\ sequence_list' = Moved(sequence_list, from, to)
         /\ output_text' = Summary(Moved(sequence_list, from, to), steps)
    /\ UNCHANGED <<disk, loaded_sources, test_functions, function_tree, diagnostics, steps, nextId,
                   currentItem, current_param_widgets, step_params_cache, stack>>

\* the position of item in seq
RowOf(seq, item) == CHOOSE k \in 1..Len(seq) : seq[k] = item

\* the list without the item at position row
Taken(seq, row) == [k \in 1..(Len(seq) - 1) |-> IF k < row THEN seq[k] ELSE seq[k + 1]]

\* the current item the list chooses when the current row is removed: the
\* row above, else the row below, else none
CurrentAfterTake(seq, row) ==
    IF row > 1 THEN seq[row - 1]
    ELSE IF row < Len(seq) THEN seq[row + 1]
    ELSE 0

\* keyPressEvent with the Delete key: the list after it, the item it took
\* (0 when none) and the exception it lets escape to its caller.  Without a
\* current item the key goes to QListWidget.keyPressEvent, which ignores it.
keyPressEvent(seq, current) ==
    IF current # 0
    THEN [sequence |-> Taken(seq, RowOf(seq, current)), taken |-> current,
          raised |-> "none"]
    ELSE [sequence |-> seq, taken |-> 0, raised |-> "none"]

\* the Delete key is pressed in the sequence list
KeyDelete ==
    /\ AtEventLoop
    /\ IF currentItem # 0
       THEN LET row == RowOf(sequence_list, currentItem)
                after == keyPressEvent(sequence_list, currentItem).sequence
            IN  /\ on_current_item_changed(CurrentAfterTake(sequence_list, row), currentItem)
                /\ sequence_list' = after
                /\ output_text' = Summary(after, steps)
       ELSE UNCHANGED <<steps, step_params_cache, current_param_widgets,
                        currentItem, sequence_list, output_text>>
    /\ UNCHANGED <<disk, loaded_sources, test_functions, function_tree, diagnostics, nextId, stack>>

\* the user makes another item the current one
SelectItem ==
    /\ AtEventLoop
    /\ \E item \in Range(sequence_list) \ {currentItem} :
         on_current_item_changed(item, currentItem)
    /\ UNCHANGED <<disk, loaded_sources, test_functions, function_tree, diagnostics, nextId,
                   sequence_list, output_text, stack>>

\* the user changes the text of the line edit of row p to text; textChanged
\* calls on_param_changed with the item the row was built for
EditParamOf(p, text) ==
    /\ AtEventLoop
    /\ p \in DOMAIN current_param_widgets
    /\ ~current_param_widgets[p].read_only
    /\ text # current_param_widgets[p].text
    /\ current_param_widgets' = [current_param_widgets EXCEPT ![p].text = text]
    /\ steps' = on_param_changed(steps, current_param_widgets[p].item, p, text)
    /\ UNCHANGED <<disk, loaded_sources, test_functions, function_tree, diagnostics, nextId,
                   sequence_list, currentItem, step_params_cache, output_text, stack>>

\* the user types into one of the rows of the panel
EditParam ==
    \E p \in DOMAIN current_param_widgets : \E text \in TypedTexts : EditParamOf(p, text)

\* clear_sequence: the list is cleared, which first makes no item current
clear_sequence ==
    /\ AtEventLoop
    /\ IF currentItem # 0
       THEN on_current_item_changed(0, currentItem)
       ELSE UNCHANGED <<steps, step_params_cache, current_param_widgets, currentItem>>
    /\ sequence_list' = <<>>
    /\ output_text' = Summary(<<>>, steps)
    /\ UNCHANGED <<disk, loaded_sources, test_functions, function_tree, diagnostics, nextId, stack>>

\* MainWindow.__init__: nothing in the list, the registry loaded once
Init ==
    /\ disk \in InteractiveDisks
    /\ loaded_sources = disk
    /\ test_functions = LoadRegistry(disk)
    /\ function_tree = LoadTree(disk)
    /\ diagnostics = LoadDiagnostics(disk)
    /\ steps = <<>>
    /\ nextId = 0
    /\ sequence_list = <<>>
    /\ currentItem = 0
    /\ current_param_widgets = EmptyMap
    /\ step_params_cache = EmptyMap
    /\ output_text = <<>>
    /\ stack = <<>>

\* the events of the window
Edit ==
    \/ SourcesChange
    \/ load_test_functions
    \/ DropFunction
    \/ DropText
    \/ DropMove
    \/ KeyDelete
    \/ SelectItem
    \/ EditParam
    \/ clear_sequence

\* the window without runs.  The handlers of Edit do not read the stack and
\* the segments of run_sequence write only the stack and the output pane, so
\* the steps, the list, the panel and the registry reach the same values
\* here as with runs in between.
SpecEdit == Init /\ [][Edit]_vars

\* the events that change the list: no other handler writes the list or
\* creates a step
EditList ==
    \/ DropFunction
    \/ DropText
    \/ DropMove
    \/ KeyDelete
    \/ SelectItem
    \/ clear_sequence

SpecList == Init /\ [][EditList]_vars

\* the events that read or write the params of a step, with one kind of
\* control step, which has no rows, beside the function steps
EditParams ==
    \/ SourcesChange
    \/ load_test_functions
    \/ DropFunction
    \/ DropTextOf("for")
    \/ KeyDelete
    \/ SelectItem
    \/ EditParam
    \/ clear_sequence

SpecParams == Init /\ [][EditParams]_vars

\* selecting, typing and running with the registry of the start: every
\* event arrives while no run is in progress
NextPersist ==
    \/ stack = <<>> /\ DropFunction
    \/ stack = <<>> /\ DropTextOf("for")
    \/ stack = <<>> /\ SelectItem
    \/ stack = <<>> /\ EditParam
    \/ stack = <<>> /\ run_sequence
    \/ RunEnterLoop
    \/ RunAfterControl
    \/ RunAfterHeader
    \/ RunAfterConversionError
    \/ RunAfterInvoke
    \/ RunReturn

SpecPersist == Init /\ [][NextPersist]_vars

\* dropping functions, selecting, typing, reloading and running, from an
\* empty sequence: every step is made by a drop from the tree, and every
\* event arrives while no run is in progress
InitResolve == InitWith(DiskSmall, <<>>)

NextResolve ==
    \/ stack = <<>> /\ SourcesChange
    \/ stack = <<>> /\ load_test_functions
    \/ stack = <<>> /\ DropFunction
    \/ stack = <<>> /\ SelectItem
    \/ stack = <<>> /\ \E p \in DOMAIN current_param_widgets : EditParamOf(p, <<"1">>)
    \/ stack = <<>> /\ run_sequence
    \/ RunEnterLoop
    \/ RunAfterHeader
    \/ RunAfterConversionError
    \/ RunAfterInvoke
    \/ RunReturn

SpecResolve == InitResolve /\ [][NextResolve]_vars

Next ==
    \/ Edit
    \/ run_sequence
    \/ RunEnterLoop
    \/ RunAfterControl
    \/ RunAfterHeader
    \/ RunAfterConversionError
    \/ RunAfterInvoke
    \/ RunReturn

Spec == Init /\ [][Next]_vars

(***************************************************************************)
(* Loading.  The directory holds, of each of two modules, no file, a file  *)
(* that raises when it is executed, or a file that defines some public     *)
(* callables (none included); functions are dropped from the catalogue in  *)
(* between.                                                                *)
(***************************************************************************)
MathFiles == {FailsToLoad, Loads(MathDefs), Loads("add_positive" :> AddPositive),
              Loads(EmptyMap)}
DeviceFiles == {FailsToLoad, Loads(DeviceDefs), Loads(EmptyMap)}

LoadDisks ==
    {EmptyMap}
    \cup {"test_math" :> a : a \in MathFiles}
    \cup {"test_device" :> b : b \in DeviceFiles}
    \cup {("test_math" :> a) @@ ("test_device" :> b) : a \in MathFiles, b \in DeviceFiles}

InitLoad == \E d \in LoadDisks : InitWith(d, <<>>)

NextLoad ==
    \/ SourcesChangeTo(LoadDisks)
    \/ load_test_functions
    \/ DropFunction

SpecLoad == InitLoad /\ [][NextLoad]_vars

(***************************************************************************)
(* Runs with events.  Every processEvents call of run_sequence delivers    *)
(* the events that are pending: a key press, a drop, a click on one of the *)
(* buttons, the Run button included, whose handler then runs to its end    *)
(* inside that call.                                                       *)
(***************************************************************************)
\* the steps of the sequences the runs with events start from
PumpSteps ==
    { [StepObject(0, "function", "test_math", "add_positive", "None")
          EXCEPT !.params = ("a" :> <<"3">>) @@ ("b" :> <<"3">>)],
      StepObject(0, "control", "None", "None", "for") }

InitPump ==
    \E n \in 0..MaxLen : \E chosen \in [1..n -> PumpSteps] : InitWith(DiskSmall, chosen)

NextPump ==
    \/ run_sequence
    \/ RunEnterLoop
    \/ RunAfterControl
    \/ RunAfterHeader
    \/ RunAfterConversionError
    \/ RunAfterInvoke
    \/ RunReturn
    \/ SourcesChange
    \/ load_test_functions
    \/ DropFunction
    \/ DropText
    \/ KeyDelete
    \/ clear_sequence

SpecPump == InitPump /\ [][NextPump]_vars

(***************************************************************************)
(* What a run has recorded.                                                *)
(***************************************************************************)
Frames == {stack[j] : j \in 1..Len(stack)}
Finished(fr) == fr.pc \in {"done", "aborted"}

\* the lines that state the outcome of a step
OutcomeKinds == {"ControlMarker", "NotFound", "ArgumentError", "Success", "Failure", "Error"}
IsOutcome(line) == line.kind \in OutcomeKinds
Outcomes(fr) == SelectSeq(fr.output, IsOutcome)
OutcomesAt(fr, i) == {j \in 1..Len(fr.output) : IsOutcome(fr.output[j]) /\ fr.output[j].i = i}
KindsAt(fr, i) == {fr.output[j].kind : j \in OutcomesAt(fr, i)}
CallsAt(fr, i) == {j \in 1..Len(fr.calls) : fr.calls[j].i = i}

\* the function step i of the run started from, as the run's registry resolves it
FuncAt(fr, i) ==
    LET st == fr.steps0[fr.seq0[i]]
    IN  IF st.type = "function" THEN Lookup(fr.reg0, st.module, st.function) ELSE NoFunc
RawText(fr, i, name) == MapGet(fr.steps0[fr.seq0[i]].params, name, <<>>)

\* C1: a finished run has recorded exactly one outcome for every step of
\* the sequence: as many outcomes as steps, none with zero and none with two.
C1_OneOutcomePerStep ==
    \A fr \in Frames : fr.pc = "done" =>
        /\ Len(Outcomes(fr)) = Len(fr.seq0)
        /\ \A i \in 1..Len(fr.seq0) : Cardinality(OutcomesAt(fr, i)) = 1

\* C2: a step with a failed argument conversion has that error as its only
\* outcome, and its function is not called.
C2_ConversionFailureSkipsCall ==
    \A fr \in Frames : \A i \in 1..Len(fr.seq0) :
        "ArgumentError" \in KindsAt(fr, i) /\ (fr.i > i \/ Finished(fr)) =>
            /\ CallsAt(fr, i) = {}
            /\ KindsAt(fr, i) = {"ArgumentError"}
            /\ Cardinality(OutcomesAt(fr, i)) = 1

\* C3: no run is aborted: every run that ends has visited every step and
\* ended with its completion line.
C3_RunAlwaysCompletes ==
    \A fr \in Frames : Finished(fr) =>
        /\ fr.pc = "done"
        /\ fr.visited = fr.seq0

\* the values Python takes for false that are not None
IsFalsyValue(v) ==
    \/ v = PyBool(FALSE)
    \/ v = PyInt(0)
    \/ v = PyStr(<<>>)
    \/ v.t = "float" /\ v.n = 0

VerdictLines(fr, i) ==
    {j \in OutcomesAt(fr, i) : fr.output[j].kind \in {"Success", "Failure", "Error"}}

\* C4: every call has one verdict line: Error with the exception text when
\* it raised, Failure when it returned a value that is false and not None,
\* Success when it returned None or any other value.
C4_TriState ==
    \A fr \in Frames : \A c \in 1..Len(fr.calls) :
        LET r == fr.calls[c].result
            lines == VerdictLines(fr, fr.calls[c].i)
        IN  /\ Cardinality(lines) = 1
            /\ \A j \in lines :
                 /\ r.raised => fr.output[j].kind = "Error" /\ fr.output[j].msg = <<r.msg>>
                 /\ ~r.raised /\ IsFalsyValue(r.value) => fr.output[j].kind = "Failure"
                 /\ ~r.raised /\ ~IsFalsyValue(r.value) => fr.output[j].kind = "Success"

\* C4's case: one run in which a call returned None and was logged as a
\* success and another returned a false value and was logged as a failure
C4_Witness ==
    \E fr \in Frames : \E a, b \in 1..Len(fr.calls) :
        /\ ~fr.calls[a].result.raised /\ fr.calls[a].result.value = PyNone
        /\ "Success" \in KindsAt(fr, fr.calls[a].i)
        /\ ~fr.calls[b].result.raised /\ IsFalsyValue(fr.calls[b].result.value)
        /\ "Failure" \in KindsAt(fr, fr.calls[b].i)

\* step i of the run is a function step that its registry does not resolve
Unresolved(fr, i) ==
    fr.steps0[fr.seq0[i]].type = "function" /\ FuncAt(fr, i) = NoFunc

\* the outcomes of a run, as (kind, text) pairs in the order of the output
OutcomePairs(fr) == [j \in 1..Len(Outcomes(fr)) |-> <<Outcomes(fr)[j].kind, Outcomes(fr)[j].msg>>]

\* C6: a function step the registry does not resolve gets the single outcome
\* NotFound and no call, and the run goes on to the next step (or completes
\* when it was the last); the sequence [for, unresolvable function step]
\* gives exactly the outcomes ControlMarker(for), NotFound.
C6_NotFound ==
    \A fr \in Frames :
        /\ \A i \in 1..Len(fr.seq0) :
             Unresolved(fr, i) /\ (fr.i > i \/ Finished(fr)) =>
                /\ KindsAt(fr, i) = {"NotFound"}
                /\ Cardinality(OutcomesAt(fr, i)) = 1
                /\ CallsAt(fr, i) = {}
                /\ IF i < Len(fr.seq0)
                   THEN Len(fr.visited) > i /\ fr.visited[i + 1] = fr.seq0[i + 1]
                   ELSE fr.pc = "done"
        /\ ( /\ fr.pc = "done"
             /\ Len(fr.seq0) = 2
             /\ fr.steps0[fr.seq0[1]].control = "for"
             /\ Unresolved(fr, 2) )
           => OutcomePairs(fr) = << <<"ControlMarker", <<"for">> >>, <<"NotFound", <<>> >> >>

\* C6's case: the run over [for, a step of the module that did not load]
\* has completed
C6_Witness ==
    \E fr \in Frames :
        /\ fr.pc = "done"
        /\ Len(fr.seq0) = 2
        /\ fr.steps0[fr.seq0[1]].control = "for"
        /\ fr.steps0[fr.seq0[2]].module = "test_device"
        /\ "test_device" \notin DOMAIN fr.reg0
        /\ OutcomePairs(fr) = << <<"ControlMarker", <<"for">> >>, <<"NotFound", <<>> >> >>

\* C7: a run visits the steps once each in the order of the sequence, from
\* the first to the last; the outcomes are in the order of the steps; a
\* control step only adds the line with its token.
C7_SingleForwardPass ==
    \A fr \in Frames :
        /\ Len(fr.visited) <= Len(fr.seq0)
        /\ \A j \in 1..Len(fr.visited) : fr.visited[j] = fr.seq0[j]
        /\ Finished(fr) => fr.visited = fr.seq0
        /\ \A a, b \in 1..Len(Outcomes(fr)) : a < b => Outcomes(fr)[a].i <= Outcomes(fr)[b].i
        /\ \A i \in 1..Len(fr.seq0) :
             fr.steps0[fr.seq0[i]].type = "control" /\ (fr.i > i \/ Finished(fr)) =>
                \A j \in OutcomesAt(fr, i) :
                    fr.output[j] = Entry("ControlMarker", i, <<fr.steps0[fr.seq0[i]].control>>)

\* s is t up to the case of its letters
SameIgnoringCase(s, t) ==
    /\ Len(s) = Len(t)
    /\ \A k \in 1..Len(t) :
         \/ s[k] = t[k]
         \/ t[k] \in Range(LowerChars) /\ s[k] = UpperChars[IndexOf(t[k], LowerChars)]

Blank(c) == c = " " \/ c = "\t"

\* t is raw without its leading and trailing blanks
TrimmedIs(raw, t) ==
    IF \A k \in 1..Len(raw) : Blank(raw[k])
    THEN t = <<>>
    ELSE \E a, b \in 1..Len(raw) :
            /\ a <= b /\ ~Blank(raw[a]) /\ ~Blank(raw[b])
            /\ \A k \in 1..Len(raw) : (k < a \/ k > b) => Blank(raw[k])
            /\ t = SubSeq(raw, a, b)

\* raw, trimmed and lowercased, is one of true, 1, yes, on
SaysTrue(raw) ==
    \E t \in {<<"t","r","u","e">>, <<"1">>, <<"y","e","s">>, <<"o","n">>} :
        \E s \in {SubSeq(raw, a, b) : a, b \in 1..Len(raw)} :
            TrimmedIs(raw, s) /\ SameIgnoringCase(s, t)

ParamsOfType(func, types) ==
    {func.params[k].name : k \in {x \in 1..Len(func.params) : func.params[x].annotation \in types}}

\* C8: no conversion of a bool parameter fails, and the argument passed for
\* it is True exactly when the trimmed, lowercased text is one of true, 1,
\* yes, on.
C8_BoolConversion ==
    \A fr \in Frames :
        /\ \A j \in 1..Len(fr.output) :
             fr.output[j].kind = "ArgumentError" =>
                fr.output[j].msg[1] \notin ParamsOfType(FuncAt(fr, fr.output[j].i), {"bool"})
        /\ \A c \in 1..Len(fr.calls) :
             \A p \in ParamsOfType(FuncAt(fr, fr.calls[c].i), {"bool"}) :
                /\ p \in DOMAIN fr.calls[c].args
                /\ fr.calls[c].args[p] = PyBool(SaysTrue(RawText(fr, fr.calls[c].i, p)))

\* C8's case: " TRUE " was converted to True and passed
C8_Witness ==
    \E fr \in Frames : \E c \in 1..Len(fr.calls) :
        \E p \in ParamsOfType(FuncAt(fr, fr.calls[c].i), {"bool"}) :
            /\ RawText(fr, fr.calls[c].i, p) = <<" ","T","R","U","E"," ">>
            /\ fr.calls[c].args[p] = PyBool(TRUE)

\* C9 as stated: a str or untyped parameter receives the stored text as it
\* is, blanks included.
C9_RawTextPassed ==
    \A fr \in Frames : \A c \in 1..Len(fr.calls) :
        \A p \in ParamsOfType(FuncAt(fr, fr.calls[c].i), {"str", "empty"}) :
            /\ p \in DOMAIN fr.calls[c].args
            /\ fr.calls[c].args[p] = PyStr(RawText(fr, fr.calls[c].i, p))

\* C9 as amended: a str or untyped parameter receives the stored text
\* without its leading and trailing blanks (the empty string when the key
\* is missing).
C9_StrippedTextPassed ==
    \A fr \in Frames : \A c \in 1..Len(fr.calls) :
        \A p \in ParamsOfType(FuncAt(fr, fr.calls[c].i), {"str", "empty"}) :
            /\ p \in DOMAIN fr.calls[c].args
            /\ fr.calls[c].args[p].t = "str"
            /\ TrimmedIs(RawText(fr, fr.calls[c].i, p), fr.calls[c].args[p].s)

\* C9's case: " x " was passed as "x"
C9_Witness ==
    \E fr \in Frames : \E c \in 1..Len(fr.calls) :
        \E p \in ParamsOfType(FuncAt(fr, fr.calls[c].i), {"str", "empty"}) :
            /\ RawText(fr, fr.calls[c].i, p) = <<" ","x"," ">>
            /\ fr.calls[c].args[p] = PyStr(<<"x">>)

\* C10: while a run is in progress and when it has ended, the sequence, the
\* steps with their params, and the registry are what they were when the
\* run started.
C10_EngineReadsOnly ==
    \A fr \in Frames :
        /\ steps = fr.steps0
        /\ sequence_list = fr.seq0
        /\ test_functions = fr.reg0

\* C10's case: a run that converted arguments and called a function has
\* completed
C10_Witness ==
    \E fr \in Frames :
        /\ fr.pc = "done"
        /\ \E c \in 1..Len(fr.calls) : DOMAIN fr.calls[c].args # {}
        /\ steps = fr.steps0 /\ sequence_list = fr.seq0 /\ test_functions = fr.reg0

\* C5: an event changes the params of no step but the one that is selected
\* (the step whose rows the panel shows and whose value is being set): the
\* params of every other step, one of the same module and function
\* included, stay as they are.
C5_ParameterIsolation ==
    [][\A t \in DOMAIN steps :
          steps'[t].params # steps[t].params => t = currentItem]_vars

\* C5's case: two steps of the same function are in the list, both have had
\* values typed in, and they hold different values
C5_Witness ==
    \E a, b \in Range(sequence_list) :
        /\ a # b
        /\ steps[a].type = "function"
        /\ steps[a].module = steps[b].module /\ steps[a].function = steps[b].function
        /\ MapGet(steps[a].params, "a", <<"unset">>) = <<"1">>
        /\ MapGet(steps[a].params, "b", <<"unset">>) = <<>>
        /\ MapGet(steps[b].params, "a", <<"unset">>) = <<>>
        /\ MapGet(steps[b].params, "b", <<"unset">>) = <<"1">>

\* C11: steps are processed one at a time.  While a run is between the
\* header of a step and that step's outcome, no other run processes a step:
\* a run started by a Run click inside the processEvents call of that step
\* visits no step.
C11_NoOverlap ==
    \A j \in 1..(Len(stack) - 1) :
        stack[j].pc = "header" =>
            \A k \in (j + 1)..Len(stack) : stack[k].visited = <<>>

\* C12: a run is not cut short.  Every run that ends has ended with its
\* completion line and has visited every step that was in the sequence when
\* it started, whatever events its processEvents calls delivered.
C12_RunNotCutShort ==
    \A fr \in Frames : Finished(fr) =>
        /\ fr.pc = "done"
        /\ \A i \in 1..Len(fr.seq0) :
             \E j \in 1..Len(fr.visited) : fr.visited[j] = fr.seq0[i]

\* the modules and the functions a directory of LoadDisks can hold
ModuleNames == {"test_math", "test_device"}
FunctionNames == DOMAIN MathDefs \cup DOMAIN DeviceDefs

\* f is a public callable of a module m of the files d that loads
Defines(d, m, f) ==
    /\ m \in DOMAIN d
    /\ ~d[m].failed
    /\ f \in DOMAIN d[m].defs

\* the (module, function) pairs the registry resolves
Entries(registry) ==
    {mf \in ModuleNames \X FunctionNames : Lookup(registry, mf[1], mf[2]) # NoFunc}

\* C13: after a load the registry resolves exactly the public callables of
\* the modules that loaded in that load, each to the callable the file
\* defines, and the catalogue lists the same pairs: nothing of an earlier
\* load is left.  A load of unchanged sources leaves the entries as they are.
C13_LoadReplaces ==
    /\ [](\A m \in ModuleNames : \A f \in FunctionNames :
            /\ Lookup(test_functions, m, f) =
                  IF Defines(loaded_sources, m, f) THEN loaded_sources[m].defs[f] ELSE NoFunc
            /\ <<m, f>> \in function_tree <=> Defines(loaded_sources, m, f))
    /\ [](DOMAIN test_functions \subseteq ModuleNames)
    /\ [][loaded_sources = disk /\ loaded_sources' = disk'
            => Entries(test_functions') = Entries(test_functions)]_vars

\* C13's case: a step was dropped from the catalogue, its function was then
\* removed from its file, which still defines another one, and the load
\* after that no longer resolves the step
C13_Witness ==
    \E i \in 1..Len(sequence_list) :
        LET st == steps[sequence_list[i]]
        IN  /\ loaded_sources = disk
            /\ st.module \in DOMAIN test_functions
            /\ Lookup(test_functions, st.module, st.function) = NoFunc
            /\ <<st.module, st.function>> \notin function_tree

\* C14: a module whose file raised in the last load has no function in the
\* registry, no row in the catalogue and one failure line; every other
\* module of that load has all its public callables registered and no
\* failure line.
C14_FailingUnitSkipped ==
    /\ DOMAIN diagnostics \subseteq DOMAIN loaded_sources
    /\ \A m \in DOMAIN loaded_sources :
         IF loaded_sources[m].failed
         THEN /\ m \notin DOMAIN test_functions
              /\ \A mf \in function_tree : mf[1] # m
              /\ m \in DOMAIN diagnostics
              /\ diagnostics[m] = 1
         ELSE /\ m \notin DOMAIN diagnostics
              /\ \A f \in DOMAIN loaded_sources[m].defs :
                   /\ Lookup(test_functions, m, f) = loaded_sources[m].defs[f]
                   /\ <<m, f>> \in function_tree

\* C14's case: a module that had loaded, and from which a step was dropped,
\* failed in the last load, and the other module is registered
C14_Witness ==
    \E i \in 1..Len(sequence_list) :
        LET st == steps[sequence_list[i]]
        IN  /\ st.module \in DOMAIN loaded_sources
            /\ loaded_sources[st.module].failed
            /\ diagnostics = (st.module :> 1)
            /\ \E m \in DOMAIN test_functions : m # st.module

\* C15: the steps ever created, those removed from the list included, have
\* pairwise different identities, no event changes the identity of a step,
\* and the items of the list are different steps.
C15_IdentityUniqueStable ==
    [][ /\ \A a, b \in DOMAIN steps' : a # b => steps'[a].id # steps'[b].id
        /\ \A t \in DOMAIN steps : t \in DOMAIN steps' /\ steps'[t].id = steps[t].id
        /\ \A i, j \in 1..Len(sequence_list') :
             i # j => sequence_list'[i] # sequence_list'[j] ]_vars

\* C15's case: a step was removed from the list, which left no item
\* current, and a step of the same function or token was created after it:
\* the two have different identities
C15_Witness ==
    /\ nextId = 2
    /\ sequence_list = <<2>>
    /\ currentItem = 0
    /\ ItemText(steps[1]) = ItemText(steps[2])
    /\ steps[1].id # steps[2].id

\* the event appends one new step of the given kind and leaves the items
\* before it, and every step, as they were
AppendsOne(type, module, function, control) ==
    /\ Len(sequence_list') = Len(sequence_list) + 1
    /\ SubSeq(sequence_list', 1, Len(sequence_list)) = sequence_list
    /\ LET new == sequence_list'[Len(sequence_list')]
       IN  /\ new \notin DOMAIN steps
           /\ new \in DOMAIN steps'
           /\ steps'[new].type = type
           /\ steps'[new].module = module
           /\ steps'[new].function = function
           /\ steps'[new].control = control
           /\ steps'[new].params = EmptyMap
    /\ DOMAIN steps' = DOMAIN steps \cup {sequence_list'[Len(sequence_list')]}
    /\ \A t \in DOMAIN steps : steps'[t] = steps[t]

\* the event appends and removes nothing
LeavesSequence == sequence_list' = sequence_list /\ steps' = steps

\* the drops of a catalogue row and of a text
DropsOfRowAndText ==
    /\ \A mf \in function_tree :
         DropFunctionOf(mf) => AppendsOne("function", mf[1], mf[2], "None")
    /\ \A text \in DroppedTexts :
         DropTextOf(text) =>
            IF text \in {"if", "for", "end"}
            THEN AppendsOne("control", "None", "None", text)
            ELSE LeavesSequence

\* C16 as stated: a drop of a catalogue row appends one function step, a
\* drop of the text if, for or end appends one control step, both at the end
\* and leaving the steps before it as they were; a drop of anything else,
\* the list's own drag included, leaves the sequence unchanged.
C16_DropAppendsOrIgnores ==
    [][DropsOfRowAndText /\ (DropMove => LeavesSequence)]_vars

\* C16 as amended: as stated for a catalogue row and for text; the drop of
\* the list's own drag appends and removes nothing, it moves one item to
\* another position.
C16_DropAppendsMovesOrIgnores ==
    [][ /\ DropsOfRowAndText
        /\ DropMove =>
             /\ steps' = steps
             /\ Len(sequence_list') = Len(sequence_list)
             /\ Range(sequence_list') = Range(sequence_list)
             /\ \E from, to \in 1..Len(sequence_list) :
                  /\ sequence_list'[to] = sequence_list[from]
                  /\ Taken(sequence_list', to) = Taken(sequence_list, from) ]_vars

\* C16's case: a function step and then a control step were dropped, and the
\* control step was dragged in front of the function step
C16_Witness ==
    /\ sequence_list = <<2, 1>>
    /\ steps[1].type = "function"
    /\ steps[2].type = "control"

\* C17: the Delete key with a current item removes that item and keeps the
\* others in their order; a removal without a current item fails with
\* IndexOutOfRange and leaves the sequence as it is.
C17_RemoveAt ==
    LET r == keyPressEvent(sequence_list, currentItem)
    IN  IF currentItem # 0
        THEN /\ r.raised = "none"
             /\ r.taken = currentItem
             /\ \E row \in 1..Len(sequence_list) :
                  /\ sequence_list[row] = currentItem
                  /\ Len(r.sequence) = Len(sequence_list) - 1
                  /\ \A k \in 1..Len(r.sequence) :
                       r.sequence[k] = sequence_list[IF k < row THEN k ELSE k + 1]
        ELSE /\ r.raised = "IndexOutOfRange"
             /\ r.sequence = sequence_list

\* the parameter names of the signatures (module, function) has in any of
\* the directories
SignatureKeys(module, function) ==
    UNION {ParamNames(Lookup(LoadRegistry(d), module, function)) : d \in InteractiveDisks}

\* C18: the params of a function step hold only parameter names of the
\* step's function; showing a step whose function is not found and then
\* leaving it adds no key.
C18_ParamsOnlySignatureKeys ==
    \A t \in DOMAIN steps :
        steps[t].type = "function" =>
            DOMAIN steps[t].params \subseteq SignatureKeys(steps[t].module, steps[t].function)

\* the ArgumentError lines of step i of a run
ArgumentErrorsAt(fr, i) ==
    {j \in 1..Len(fr.output) : fr.output[j].kind = "ArgumentError" /\ fr.output[j].i = i}

\* the conversion of parameter k of step i of a run succeeds
Converts(fr, i, k) ==
    LET p == FuncAt(fr, i).params[k]
    IN  ConvertArg(p.annotation, Strip(RawText(fr, i, p.name))).ok

\* C19: a step has at most one argument-conversion error; it names the
\* first parameter, in signature order, whose text does not convert, and no
\* parameter after that one is converted: none is among the arguments the
\* step has collected or passed.
C19_StopsAtFirstFailure ==
    \A fr \in Frames : \A i \in 1..Len(fr.seq0) :
        LET func == FuncAt(fr, i)
        IN  /\ Cardinality(ArgumentErrorsAt(fr, i)) <= 1
            /\ \A j \in ArgumentErrorsAt(fr, i) :
                 \E k \in 1..Len(func.params) :
                    /\ func.params[k].name = fr.output[j].msg[1]
                    /\ ~Converts(fr, i, k)
                    /\ \A h \in 1..(k - 1) : Converts(fr, i, h)
                    /\ \A h \in (k + 1)..Len(func.params) :
                         /\ \A c \in CallsAt(fr, i) :
                              func.params[h].name \notin DOMAIN fr.calls[c].args
                         /\ fr.i = i => func.params[h].name \notin DOMAIN fr.args

\* the keys of step t whose value an event has set or changed
Written(t) ==
    {p \in DOMAIN steps'[t].params :
        p \notin DOMAIN steps[t].params \/ steps'[t].params[p] # steps[t].params[p]}

StoredText(allSteps, t, p) == MapGet(allSteps[t].params, p, <<>>)

\* the declared parameters of the function of step t
DeclaredParams(t) ==
    IF steps[t].type = "function"
    THEN ParamNames(Lookup(test_functions, steps[t].module, steps[t].function))
    ELSE {}

\* the panel shows, for the current item, one row for each declared
\* parameter, holding the text the step holds for it
PanelShowsStored ==
    currentItem # 0 =>
        /\ DOMAIN current_param_widgets = DeclaredParams(currentItem)
        /\ \A p \in DOMAIN current_param_widgets :
             current_param_widgets[p].text = StoredText(steps, currentItem, p)

\* what a run has converted and passed for a step is the text the step
\* holds, stripped and converted
RunReadsStored ==
    \A fr \in Frames : \A c \in 1..Len(fr.calls) :
        LET t == fr.calls[c].step
            func == Lookup(test_functions, steps[t].module, steps[t].function)
        IN  \A k \in 1..Len(func.params) :
                LET name == func.params[k].name
                    conv == ConvertArg(func.params[k].annotation,
                                       Strip(StoredText(steps, t, name)))
                IN  IF conv.ok
                    THEN /\ name \in DOMAIN fr.calls[c].args
                         /\ fr.calls[c].args[name] = conv.value
                    ELSE name \notin DOMAIN fr.calls[c].args

\* C21: with the registry unchanged, the text a step holds for a declared
\* parameter p is the text last typed into the row of p while the step was
\* current, the empty text before any was typed: typing sets it, and no other
\* event, a change of selection and a run included, changes it for any
\* step.  That text is what the panel shows when the step is current and
\* what a run reads for it.
C21_ValuesPersist ==
    /\ []PanelShowsStored
    /\ []RunReadsStored
    /\ [][ /\ \A p \in DOMAIN current_param_widgets : \A text \in TypedTexts :
                EditParamOf(p, text) =>
                   /\ currentItem # 0
                   /\ StoredText(steps', currentItem, p) = text
           /\ \A t \in DOMAIN steps : \A p \in DeclaredParams(t) :
                StoredText(steps', t, p) # StoredText(steps, t, p) =>
                   /\ t = currentItem
                   /\ \E text \in TypedTexts : EditParamOf(p, text)
           /\ \A t \in DOMAIN steps' \ DOMAIN steps :
                steps'[t].params = EmptyMap ]_vars

\* C21's case: values were typed for a step, another item was selected and
\* the step selected again (its rows have been saved on leaving it); the
\* panel shows the values and a run has passed them to the function
C21_Witness ==
    \E fr \in Frames : \E c \in 1..Len(fr.calls) :
        LET t == fr.calls[c].step
        IN  /\ currentItem = t
            /\ t \in DOMAIN step_params_cache
            /\ Cardinality(Range(sequence_list)) = 2
            /\ current_param_widgets["a"].text = <<"1">>
            /\ current_param_widgets["b"].text = <<"1">>
            /\ fr.calls[c].args = ("a" :> PyInt(1)) @@ ("b" :> PyInt(1))
            /\ \E u \in Range(sequence_list) \ {t} :
                 steps[u].type = "function" /\ StoredText(steps, u, "a") = <<>>

\* C22: the registry does not change for the duration of a run.  When a run
\* resolves its last step (the step with the index of the count taken at
\* line 426), the registry it looks the step up in is the one that was in
\* place when the run started, whatever events its processEvents calls
\* delivered.
C22_RegistryFixedDuringRun ==
    [][ ( /\ stack' # <<>>
          /\ Len(stack') = Len(stack)
          /\ Top' # Top
          /\ Top'.pc = "header"
          /\ Top'.i = Top'.count )
        => test_functions' = Top'.reg0 ]_vars

\* the callable the files d, as a load read them, give for the names of st
Resolved(d, st) ==
    IF Defines(d, st.module, st.function)
    THEN d[st.module].defs[st.function]
    ELSE NoFunc

\* the lines of kind `kind` for iteration i in the text `out`
LinesOf(out, kind, i) == {j \in 1..Len(out) : out[j].kind = kind /\ out[j].i = i}

\* C23: a function step holds the names of its module and function and its
\* params, and no callable.  A reload and a run leave every step as it is.
\* A run resolves each function step in the registry of the load that
\* precedes the run: it reports the step not found exactly when the files
\* that load read do not define the function, whatever they defined when
\* the step was appended, and otherwise goes on with the callable they
\* define.
C23_ResolvedAtExecution ==
    /\ [](\A t \in DOMAIN steps :
            /\ DOMAIN steps[t] = {"id", "type", "module", "function", "control", "params"}
            /\ steps[t].type = "function" =>
                  /\ steps[t].module \in ModuleNames
                  /\ steps[t].function \in FunctionNames)
    /\ [](\A fr \in Frames :
            /\ fr.pc \in {"header", "conv", "end"} =>
                  fr.func = Resolved(loaded_sources, steps[fr.step])
            /\ \A i \in 1..Len(fr.seq0) :
                  (steps[fr.seq0[i]].type = "function" /\ (Finished(fr) \/ i < fr.i)) =>
                     /\ LinesOf(fr.output, "Header", i) # {}
                     /\ LinesOf(fr.output, "NotFound", i) # {}
                          <=> Resolved(loaded_sources, steps[fr.seq0[i]]) = NoFunc)
    /\ [][ (test_functions' # test_functions \/ disk' # disk \/ stack' # stack)
             => \A t \in DOMAIN steps : t \in DOMAIN steps' /\ steps'[t] = steps[t] ]_vars

\* C23's case: a step appended by a drop from the tree, for which values
\* were typed; the output shows the last run, made after a reload of files
\* that no longer defined its function, reporting it not found; a later
\* reload has restored the function, and the step holds the typed values
C23_Witness ==
    /\ stack = <<>>
    /\ \E i \in 1..Len(sequence_list) :
         LET st == steps[sequence_list[i]]
         IN  /\ st.type = "function"
             /\ DOMAIN st.params = {"a", "b"}
             /\ st.params["a"] = <<"1">>
             /\ \E j \in LinesOf(output_text, "Header", i) :
                  output_text[j].msg = ItemText(st)
             /\ LinesOf(output_text, "NotFound", i) # {}
             /\ Resolved(loaded_sources, st) # NoFunc
             /\ Lookup(test_functions, st.module, st.function) = Resolved(loaded_sources, st)

====
